---- MODULE Spec2Model ----
(***************************************************************************)
(* Model of the arXiv reference search tool.                               *)
(*                                                                         *)
(* Two programs of the repository implement the pipeline:                  *)
(*   srxiv.py         request_arxiv, dl_open_pdf, interactive_search, main *)
(*   search_arxiv.py  ResultDisplayer.display_results_interactive,         *)
(*                    ResultDisplayer.download_pdf_and_view                *)
(*                                                                         *)
(* Spec       the interactive session and the download step, for both      *)
(*            programs (impl), with the file system kept across runs.      *)
(* QuerySpec  srxiv.request_arxiv followed by main's check of its result.  *)
(* LocateSpec srxiv.get_reftxt and CitationParser.find_reference over      *)
(*            small paginated documents.                                   *)
(* RankSpec   the candidate list each program hands to its interactive     *)
(*            loop: ArxivSearcher.search_by_authors and srxiv.main.        *)
(*                                                                         *)
(* Text is a sequence of one-character strings.  Characters outside ASCII  *)
(* are written as tokens: "sup2" is SUPERSCRIPT TWO, "ldq"/"rdq" are the    *)
(* curly double quotes, "ouml" is o with diaeresis.                        *)
(***************************************************************************)
EXTENDS Integers, Sequences, FiniteSets, TLC

VARIABLES
    impl,      \* which program runs: "srxiv" or "search_arxiv"
    n,         \* len(entries): number of candidates returned by the repository
    pc,        \* position of the session: start, prompt, done, crashed, exit1
    dispnum,   \* dispnum / displayed_count
    shown,     \* the entries printed so far (print_entry / display_single_result)
    files,     \* file system: candidate -> contents of its output path
    ev,        \* the last loop iteration: command read, report, download
    nfetch,    \* calls of the download step so far
    cap,       \* calls of the download step the model explores
    reftxt,    \* request_arxiv: the reference text
    mode,      \* request_arxiv: forced pattern (0 = None)
    qpc,       \* request_arxiv / main: call, returned, raised, exit1, interactive
    sent,      \* queries handed to query_arxiv_api, in order
    printed,   \* text echoed by request_arxiv's failure branches
    result,    \* value returned by request_arxiv: None or a list of entries
    doc,       \* the document: the text of each page (page.get_text())
    refnum,    \* the reference number looked up
    findnth,   \* get_reftxt: the occurrence index (--depth)
    block,     \* what the reference lookup returned
    feed,      \* the entries of the repository's answer, in its order
    target,    \* the parsed target title, <<>> when there is none
    handed     \* the list handed to the interactive loop

vars == <<impl, n, pc, dispnum, shown, files, ev, nfetch, cap,
          reftxt, mode, qpc, sent, printed, result,
          doc, refnum, findnth, block, feed, target, handed>>

sessionVars == <<impl, n, pc, dispnum, shown, files, ev, nfetch, cap>>
queryVars == <<reftxt, mode, qpc, sent, printed, result>>
locateVars == <<doc, refnum, findnth, block>>
rankVars == <<feed, target, handed>>

\* no reference lookup in this run
NoBlock == [kind |-> "unset", page |-> 0, ini |-> 0, fin |-> 0, text |-> <<>>]

LocateIdle == doc = <<>> /\ refnum = 0 /\ findnth = 0 /\ block = NoBlock

\* no candidate list built in this run
NoList == [kind |-> "unset", entries |-> <<>>]

RankIdle == feed = <<>> /\ target = <<>> /\ handed = NoList

(***************************************************************************)
(* Bounds of the model                                                     *)
(***************************************************************************)
MaxN == 12        \* Spec: largest candidate list
MaxSelect == 1    \* Spec: calls of the download step
MaxCands == 2     \* FetchSpec: largest candidate list
MaxFetch == 2     \* FetchSpec: calls of the download step over all runs

(***************************************************************************)
(* Program constants                                                       *)
(***************************************************************************)
BatchSize == 5    \* min(5, n - dispnum)

Min(a, b) == IF a <= b THEN a ELSE b

(***************************************************************************)
(* Characters and the str methods the loops use                            *)
(***************************************************************************)
DecDigit == <<"0", "1", "2", "3", "4", "5", "6", "7", "8", "9">>
Digits == {DecDigit[i] : i \in 1..10}
\* str.isdigit() is true of every character with Numeric_Type Digit or
\* Decimal, which includes SUPERSCRIPT TWO; int() accepts decimals only.
IsDigitChars == Digits \cup {"sup2"}
Whitespace == {" ", "\t"}

DigitVal(ch) == CHOOSE d \in 0..9 : DecDigit[d + 1] = ch

\* str(i) for 0 <= i <= 99
Dec(i) == IF i < 10 THEN <<DecDigit[i + 1]>>
          ELSE <<DecDigit[(i \div 10) + 1], DecDigit[(i % 10) + 1]>>

RECURSIVE LStrip(_)
LStrip(s) == IF s # <<>> /\ Head(s) \in Whitespace THEN LStrip(Tail(s)) ELSE s

RECURSIVE RStrip(_)
RStrip(s) == IF s # <<>> /\ s[Len(s)] \in Whitespace
             THEN RStrip(SubSeq(s, 1, Len(s) - 1)) ELSE s

\* str.strip()
Strip(s) == RStrip(LStrip(s))

UpperLetters == <<"A", "B", "C", "D", "E", "F", "G", "H", "I", "J", "K", "L", "M",
                  "N", "O", "P", "Q", "R", "S", "T", "U", "V", "W", "X", "Y", "Z">>
LowerLetters == <<"a", "b", "c", "d", "e", "f", "g", "h", "i", "j", "k", "l", "m",
                  "n", "o", "p", "q", "r", "s", "t", "u", "v", "w", "x", "y", "z">>

LowerChar(ch) ==
    IF \E i \in 1..26 : UpperLetters[i] = ch
    THEN LowerLetters[CHOOSE i \in 1..26 : UpperLetters[i] = ch]
    ELSE ch

\* str.lower()
Lower(s) == [i \in 1..Len(s) |-> LowerChar(s[i])]

\* str.isdigit(): non-empty and every character a digit character
IsDigit(s) == s # <<>> /\ \A i \in 1..Len(s) : s[i] \in IsDigitChars

\* int(s) raises ValueError unless every character is a decimal digit
IntRaises(s) == \E i \in 1..Len(s) : s[i] \notin Digits

RECURSIVE IntOf(_)
IntOf(s) == IF s = <<>> THEN 0
            ELSE 10 * IntOf(SubSeq(s, 1, Len(s) - 1)) + DigitVal(s[Len(s)])

\* input(...).strip().lower()
ReadCmd(raw) == Lower(Strip(raw))

\* The lines an operator types at the prompt.
Cmds ==
    {Dec(i) : i \in 0..(MaxN + 1)}
    \cup {<<"q">>, <<"Q">>, <<" ", "q", " ">>, <<"m">>, <<"M">>, <<>>, <<" ">>,
          <<"x">>, <<"-", "1">>, <<"0", "3">>, <<" ", "2", " ">>, <<"sup2">>,
          <<"q", "q">>}

(***************************************************************************)
(* The download step                                                       *)
(***************************************************************************)
\* What the server answers to the document request, or an interruption
\* (Ctrl-C) arriving while the request is in flight.
Outcomes == {"pdf", "notpdf", "httperr", "interrupt"}

NoFetch == [cand |-> 0, existed |-> FALSE, requested |-> FALSE,
            outcome |-> "none", before |-> "absent", lookup |-> FALSE,
            opened |-> FALSE, raised |-> "none", success |-> FALSE]

\* Fields of the record: cand, the entry handed to the download step;
\* before/existed, the contents of its output path on entry; requested, an
\* HTTP request was issued; outcome, its answer; lookup, the viewer lookup was
\* reached; opened, a viewer was started on the file; raised, the exception
\* leaving the step; success, the step's result.

\* Mutant of SrxFetchNeeded: the existence test is lost.
SrxFetchAlways(fs, c) == TRUE

\* srxiv.dl_open_pdf: `if not filepath.exists()`
SrxFetchNeeded(fs, c) == fs[c] = "absent"

\* srxiv.dl_open_pdf: response.content.startswith(b'%PDF')
SrxContentOk(outcome) == outcome = "pdf"

\* srxiv.dl_open_pdf(e) on file system fs; viewer = shutil.which('mupdf')
\* found the program.  Returns the new file system and what happened.
DlOpenPdf(fs, c, outcome, viewer) ==
    LET base == [NoFetch EXCEPT !.cand = c, !.before = fs[c],
                                !.existed = (fs[c] # "absent")]
    IN  IF ~SrxFetchNeeded(fs, c)
        THEN [files |-> fs,
              log |-> [base EXCEPT !.lookup = TRUE, !.opened = viewer,
                                   !.success = TRUE]]
        ELSE LET req == [base EXCEPT !.requested = TRUE, !.outcome = outcome]
             IN  CASE outcome = "interrupt" ->
                        [files |-> fs,
                         log |-> [req EXCEPT !.raised = "KeyboardInterrupt"]]
                   [] outcome = "httperr" ->
                        [files |-> fs,
                         log |-> [req EXCEPT !.raised = "RequestException"]]
                   [] outcome \notin {"interrupt", "httperr"}
                      /\ ~SrxContentOk(outcome) ->
                        [files |-> fs,
                         log |-> [req EXCEPT !.raised = "ValueError"]]
                   [] OTHER ->
                        [files |-> [fs EXCEPT ![c] = outcome],
                         log |-> [req EXCEPT !.lookup = TRUE,
                                             !.opened = viewer,
                                             !.success = TRUE]]

\* search_arxiv.download_pdf_and_view: `if os.path.exists(filename)`
SaFileExists(fs, c) == fs[c] # "absent"

\* search_arxiv.download_pdf_and_view(url, filename); viewer = some viewer of
\* open_pdf_with_viewer's list is installed.  success is the value returned.
DownloadPdfAndView(fs, c, outcome, viewer) ==
    LET base == [NoFetch EXCEPT !.cand = c, !.before = fs[c],
                                !.existed = (fs[c] # "absent")]
    IN  IF SaFileExists(fs, c)
        THEN [files |-> fs,
              log |-> [base EXCEPT !.lookup = TRUE, !.opened = viewer,
                                   !.success = viewer]]
        ELSE LET req == [base EXCEPT !.requested = TRUE, !.outcome = outcome]
             IN  CASE outcome = "interrupt" ->
                        [files |-> fs,
                         log |-> [req EXCEPT !.raised = "KeyboardInterrupt"]]
                   [] outcome = "httperr" ->
                        \* except Exception: return False
                        [files |-> fs, log |-> req]
                   [] OTHER ->
                        [files |-> [fs EXCEPT ![c] = outcome],
                         log |-> [req EXCEPT !.lookup = TRUE,
                                             !.opened = viewer,
                                             !.success = viewer]]

(***************************************************************************)
(* The interactive session                                                 *)
(***************************************************************************)
NoEv == [kind |-> "none", c |-> <<>>, k |-> 0, report |-> "none",
         fetch |-> NoFetch]

Event(kind, c, k, report) ==
    [kind |-> kind, c |-> c, k |-> k, report |-> report, fetch |-> NoFetch]

Terminal == {"done", "crashed", "exit1"}

\* the entries printed by `for j in range(k, k + cnt)`, numbered from 1
Batch(k, cnt) == [i \in 1..cnt |-> k + i]

Init ==
    /\ impl \in {"srxiv", "search_arxiv"}
    /\ n \in 0..MaxN
    /\ pc = "start"
    /\ dispnum = 0
    /\ shown = <<>>
    /\ files = [c \in 1..n |-> "absent"]
    /\ ev = NoEv
    /\ nfetch = 0
    /\ cap = MaxSelect
    /\ reftxt = <<>>
    /\ mode = 0
    /\ qpc = "idle"
    /\ sent = <<>>
    /\ printed = <<>>
    /\ result = [kind |-> "unset", len |-> 0]
    /\ LocateIdle /\ RankIdle

\* srxiv.main: `if not entries: sys.exit(1)`, then interactive_search up to
\* its first prompt.
SrxEnter ==
    /\ impl = "srxiv" /\ pc = "start"
    /\ IF n = 0
       THEN /\ pc' = "exit1"
            /\ ev' = Event("enter", <<>>, 0, "none")
            /\ UNCHANGED <<dispnum, shown>>
       ELSE /\ pc' = "prompt"
            /\ shown' = shown \o <<1>>
            /\ dispnum' = 1
            /\ ev' = Event("enter", <<>>, 0, "entries")
    /\ UNCHANGED <<impl, n, files, nfetch, cap>>
    /\ UNCHANGED <<queryVars, locateVars, rankVars>>

\* srxiv.interactive_search: `if c == 'q': return`
SrxQuit(raw) ==
    /\ impl = "srxiv" /\ pc = "prompt"
    /\ ReadCmd(raw) = <<"q">>
    /\ pc' = "done"
    /\ ev' = Event("quit", ReadCmd(raw), dispnum, "none")
    /\ UNCHANGED <<impl, n, dispnum, shown, files, nfetch, cap>>
    /\ UNCHANGED <<queryVars, locateVars, rankVars>>

\* srxiv.interactive_search: `if n > 1 and c == 'm'`
SrxIsMore(c, N) == N > 1 /\ c = <<"m">>

\* Mutant of SrxRemnum: the batch is not cut at the end of the list.
SrxRemnumWhole(k, N) == BatchSize

\* srxiv.interactive_search: remnum = min(5, n - dispnum)
SrxRemnum(k, N) == Min(BatchSize, N - k)

SrxMore(raw) ==
    /\ impl = "srxiv" /\ pc = "prompt"
    /\ ReadCmd(raw) # <<"q">>
    /\ SrxIsMore(ReadCmd(raw), n)
    /\ IF dispnum >= n
       THEN /\ ev' = Event("more", ReadCmd(raw), dispnum, "nomore")
            /\ UNCHANGED <<dispnum, shown>>
       ELSE /\ shown' = shown \o Batch(dispnum, SrxRemnum(dispnum, n))
            /\ dispnum' = dispnum + SrxRemnum(dispnum, n)
            /\ ev' = Event("more", ReadCmd(raw), dispnum, "entries")
    /\ UNCHANGED <<impl, n, pc, files, nfetch, cap>>
    /\ UNCHANGED <<queryVars, locateVars, rankVars>>

\* srxiv.interactive_search: the index test, for a c that is all digits and
\* that int() accepts: `0 < int(c) <= len(entries)`
SrxIndexOk(c, k, N) == 0 < IntOf(c) /\ IntOf(c) <= N

\* c reaches the index test of srxiv.interactive_search
SrxToIndexTest(c) == c # <<"q">> /\ ~SrxIsMore(c, n)

\* `if not c.isdigit() or not 0 < int(c) <= len(entries)`: Invalid input
SrxInvalid(raw) ==
    /\ impl = "srxiv" /\ pc = "prompt"
    /\ SrxToIndexTest(ReadCmd(raw))
    /\ \/ ~IsDigit(ReadCmd(raw))
       \/ /\ IsDigit(ReadCmd(raw)) /\ ~IntRaises(ReadCmd(raw))
          /\ ~SrxIndexOk(ReadCmd(raw), dispnum, n)
    /\ ev' = Event("invalid", ReadCmd(raw), dispnum, "invalid")
    /\ UNCHANGED <<impl, n, pc, dispnum, shown, files, nfetch, cap>>
    /\ UNCHANGED <<queryVars, locateVars, rankVars>>

\* int(c) raises ValueError for a digit character that is no decimal; the
\* loop catches KeyboardInterrupt and EOFError only, so the exception leaves
\* interactive_search and main.
SrxIntError(raw) ==
    /\ impl = "srxiv" /\ pc = "prompt"
    /\ SrxToIndexTest(ReadCmd(raw))
    /\ IsDigit(ReadCmd(raw)) /\ IntRaises(ReadCmd(raw))
    /\ pc' = "crashed"
    /\ ev' = Event("crash", ReadCmd(raw), dispnum, "traceback")
    /\ UNCHANGED <<impl, n, dispnum, shown, files, nfetch, cap>>
    /\ UNCHANGED <<queryVars, locateVars, rankVars>>

\* Mutant of SrxAfterSelect: a failed download prompts again.
SrxAfterSelectRetry(raised) ==
    IF raised = "none" THEN "done" ELSE "prompt"

\* where interactive_search is after dl_open_pdf: `return`, the
\* KeyboardInterrupt handler's `break`, or the exception propagating
SrxAfterSelect(raised) ==
    IF raised \in {"none", "KeyboardInterrupt"} THEN "done" ELSE "crashed"

\* e = entries[int(c) - 1]; dl_open_pdf(e); return
SrxSelect(raw, outcome, viewer) ==
    /\ impl = "srxiv" /\ pc = "prompt"
    /\ nfetch < cap
    /\ SrxToIndexTest(ReadCmd(raw))
    /\ IsDigit(ReadCmd(raw)) /\ ~IntRaises(ReadCmd(raw))
    /\ SrxIndexOk(ReadCmd(raw), dispnum, n)
    /\ LET r == DlOpenPdf(files, IntOf(ReadCmd(raw)), outcome, viewer)
       IN  /\ files' = r.files
           /\ pc' = SrxAfterSelect(r.log.raised)
           /\ ev' = [kind |-> "select", c |-> ReadCmd(raw), k |-> dispnum,
                     report |-> IF r.log.raised = "none"
                                THEN (IF r.log.opened THEN "opening"
                                      ELSE "noviewer")
                                ELSE IF r.log.raised = "KeyboardInterrupt"
                                     THEN "interrupted" ELSE "traceback",
                     fetch |-> r.log]
    /\ nfetch' = nfetch + 1
    /\ UNCHANGED <<impl, n, dispnum, shown, cap>>
    /\ UNCHANGED <<queryVars, locateVars, rankVars>>

\* input() raises KeyboardInterrupt or EOFError: print, break
SrxInputEnds(kind) ==
    /\ impl = "srxiv" /\ pc = "prompt"
    /\ pc' = "done"
    /\ ev' = Event(kind, <<>>, dispnum, "exiting")
    /\ UNCHANGED <<impl, n, dispnum, shown, files, nfetch, cap>>
    /\ UNCHANGED <<queryVars, locateVars, rankVars>>

\* search_arxiv.display_results_interactive up to its first prompt:
\* `if not entries: print("No results found."); return`
SaEnter ==
    /\ impl = "search_arxiv" /\ pc = "start"
    /\ IF n = 0
       THEN /\ pc' = "done"
            /\ ev' = Event("enter", <<>>, 0, "noresults")
            /\ UNCHANGED <<dispnum, shown>>
       ELSE /\ pc' = "prompt"
            /\ shown' = shown \o <<1>>
            /\ dispnum' = 1
            /\ ev' = Event("enter", <<>>, 0, "entries")
    /\ UNCHANGED <<impl, n, files, nfetch, cap>>
    /\ UNCHANGED <<queryVars, locateVars, rankVars>>

\* `if user_input == 'q': print("Goodbye!"); break`
SaQuit(raw) ==
    /\ impl = "search_arxiv" /\ pc = "prompt"
    /\ ReadCmd(raw) = <<"q">>
    /\ pc' = "done"
    /\ ev' = Event("quit", ReadCmd(raw), dispnum, "goodbye")
    /\ UNCHANGED <<impl, n, dispnum, shown, files, nfetch, cap>>
    /\ UNCHANGED <<queryVars, locateVars, rankVars>>

\* Mutant of SaRemaining: the batch is not cut at the end of the list.
SaRemainingWhole(k, N) == BatchSize

\* remaining = min(5, len(entries) - displayed_count)
SaRemaining(k, N) == Min(BatchSize, N - k)

\* `elif user_input == 'm'`
SaMore(raw) ==
    /\ impl = "search_arxiv" /\ pc = "prompt"
    /\ ReadCmd(raw) # <<"q">>
    /\ ReadCmd(raw) = <<"m">>
    /\ IF dispnum < n
       THEN /\ shown' = shown \o Batch(dispnum, SaRemaining(dispnum, n))
            /\ dispnum' = dispnum + SaRemaining(dispnum, n)
            /\ ev' = Event("more", ReadCmd(raw), dispnum, "entries")
       ELSE /\ ev' = Event("more", ReadCmd(raw), dispnum, "nomore")
            /\ UNCHANGED <<dispnum, shown>>
    /\ UNCHANGED <<impl, n, pc, files, nfetch, cap>>
    /\ UNCHANGED <<queryVars, locateVars, rankVars>>

\* c reaches `elif user_input.isdigit()` and passes it
SaIsNumber(c) == c # <<"q">> /\ c # <<"m">> /\ IsDigit(c)

\* `if 1 <= result_num <= min(displayed_count, len(entries))`
SaIndexOk(c, k, N) == 1 <= IntOf(c) /\ IntOf(c) <= Min(k, N)

\* `if success: break` else print("Download failed.") and prompt again; a
\* KeyboardInterrupt leaves download_pdf_and_view (it catches Exception
\* only) and reaches the loop's handler: break
SaAfterSelect(log) ==
    IF log.raised = "KeyboardInterrupt" \/ log.success THEN "done"
    ELSE "prompt"

\* a number in range: download_pdf_and_view(entry.pdf_url, filename)
SaSelect(raw, outcome, viewer) ==
    /\ impl = "search_arxiv" /\ pc = "prompt"
    /\ nfetch < cap
    /\ SaIsNumber(ReadCmd(raw)) /\ ~IntRaises(ReadCmd(raw))
    /\ SaIndexOk(ReadCmd(raw), dispnum, n)
    /\ LET r == DownloadPdfAndView(files, IntOf(ReadCmd(raw)), outcome, viewer)
       IN  /\ files' = r.files
           /\ pc' = SaAfterSelect(r.log)
           /\ ev' = [kind |-> "select", c |-> ReadCmd(raw), k |-> dispnum,
                     report |-> IF r.log.raised = "KeyboardInterrupt"
                                THEN "interrupted"
                                ELSE IF r.log.success THEN "saved"
                                     ELSE "failed",
                     fetch |-> r.log]
    /\ nfetch' = nfetch + 1
    /\ UNCHANGED <<impl, n, dispnum, shown, cap>>
    /\ UNCHANGED <<queryVars, locateVars, rankVars>>

\* a number out of range ("Invalid number"), or neither 'q', 'm' nor a
\* number ("Invalid command")
SaInvalid(raw) ==
    /\ impl = "search_arxiv" /\ pc = "prompt"
    /\ ReadCmd(raw) # <<"q">> /\ ReadCmd(raw) # <<"m">>
    /\ \/ ~IsDigit(ReadCmd(raw))
       \/ /\ SaIsNumber(ReadCmd(raw)) /\ ~IntRaises(ReadCmd(raw))
          /\ ~SaIndexOk(ReadCmd(raw), dispnum, n)
    /\ ev' = Event("invalid", ReadCmd(raw), dispnum, "invalid")
    /\ UNCHANGED <<impl, n, pc, dispnum, shown, files, nfetch, cap>>
    /\ UNCHANGED <<queryVars, locateVars, rankVars>>

\* int(user_input) raises ValueError: `except Exception as e: print; continue`
SaIntError(raw) ==
    /\ impl = "search_arxiv" /\ pc = "prompt"
    /\ SaIsNumber(ReadCmd(raw)) /\ IntRaises(ReadCmd(raw))
    /\ ev' = Event("error", ReadCmd(raw), dispnum, "error")
    /\ UNCHANGED <<impl, n, pc, dispnum, shown, files, nfetch, cap>>
    /\ UNCHANGED <<queryVars, locateVars, rankVars>>

\* input() raises KeyboardInterrupt or EOFError: print, break
SaInputEnds(kind) ==
    /\ impl = "search_arxiv" /\ pc = "prompt"
    /\ pc' = "done"
    /\ ev' = Event(kind, <<>>, dispnum, "exiting")
    /\ UNCHANGED <<impl, n, dispnum, shown, files, nfetch, cap>>
    /\ UNCHANGED <<queryVars, locateVars, rankVars>>

\* The operator runs the program again with the same arguments: a new
\* process, the same repository answer and the same working directory.
Restart ==
    /\ pc \in Terminal
    /\ pc' = "start"
    /\ dispnum' = 0
    /\ shown' = <<>>
    /\ ev' = NoEv
    /\ UNCHANGED <<impl, n, files, nfetch, cap>>
    /\ UNCHANGED <<queryVars, locateVars, rankVars>>

Next ==
    \/ SrxEnter
    \/ \E raw \in Cmds : SrxQuit(raw)
    \/ \E raw \in Cmds : SrxMore(raw)
    \/ \E raw \in Cmds : SrxInvalid(raw)
    \/ \E raw \in Cmds : SrxIntError(raw)
    \/ \E raw \in Cmds, o \in Outcomes, v \in BOOLEAN : SrxSelect(raw, o, v)
    \/ \E kind \in {"interrupt", "eof"} : SrxInputEnds(kind)
    \/ SaEnter
    \/ \E raw \in Cmds : SaQuit(raw)
    \/ \E raw \in Cmds : SaMore(raw)
    \/ \E raw \in Cmds : SaInvalid(raw)
    \/ \E raw \in Cmds : SaIntError(raw)
    \/ \E raw \in Cmds, o \in Outcomes, v \in BOOLEAN : SaSelect(raw, o, v)
    \/ \E kind \in {"interrupt", "eof"} : SaInputEnds(kind)

\* One invocation of either program, for every size of the candidate list.
Spec == Init /\ [][Next]_vars

\* Repeated invocations and repeated downloads over few candidates.
FetchInit ==
    /\ impl \in {"srxiv", "search_arxiv"}
    /\ n \in 1..MaxCands
    /\ pc = "start"
    /\ dispnum = 0
    /\ shown = <<>>
    /\ files = [c \in 1..n |-> "absent"]
    /\ ev = NoEv
    /\ nfetch = 0
    /\ cap = MaxFetch
    /\ reftxt = <<>>
    /\ mode = 0
    /\ qpc = "idle"
    /\ sent = <<>>
    /\ printed = <<>>
    /\ result = [kind |-> "unset", len |-> 0]
    /\ LocateIdle /\ RankIdle

FetchNext == Next \/ Restart

FetchSpec == FetchInit /\ [][FetchNext]_vars

(***************************************************************************)
(* srxiv.request_arxiv: regular expressions over text                      *)
(***************************************************************************)
\* [a-zA-Z0-9]
AsciiAlnum == {UpperLetters[i] : i \in 1..26} \cup {LowerLetters[i] : i \in 1..26}
              \cup Digits
\* \w of a str pattern: letters of any script, digits and the underscore
WordChars == AsciiAlnum \cup {"_", "ouml"}

\* s has lit at position p
StartsAt(s, p, lit) ==
    /\ p >= 1
    /\ p + Len(lit) - 1 <= Len(s)
    /\ SubSeq(s, p, p + Len(lit) - 1) = lit

\* s[p] exists and is in class
CharIn(s, p, class) == p >= 1 /\ p <= Len(s) /\ s[p] \in class

SetMin(S) == CHOOSE x \in S : \A y \in S : x <= y
SetMax(S) == CHOOSE x \in S : \A y \in S : x >= y

\* end of the longest run of characters of `class` that starts at p (p - 1
\* when s[p] is not in it): a greedy class+
RunEndIn(s, p, class) ==
    LET stop == {i \in p..Len(s) : s[i] \notin class}
    IN  IF stop = {} THEN Len(s) ELSE SetMin(stop) - 1

\* end of the longest run of characters outside `class` that starts at p
RunEndNotIn(s, p, class) ==
    LET stop == {i \in p..Len(s) : s[i] \in class}
    IN  IF stop = {} THEN Len(s) ELSE SetMin(stop) - 1

\* `\((\d+)\)` at q, the digits ending at e: the position after the ")", or 0
YearEnd(s, q, e) ==
    IF e >= q + 1 /\ CharIn(s, e + 1, {")"}) THEN e + 2 ELSE 0

YearAt(s, q) ==
    IF CharIn(s, q, {"("}) THEN YearEnd(s, q, RunEndIn(s, q + 1, Digits))
    ELSE 0

\* `\.` after a year that ends before y
DotAt(s, y) == y > 0 /\ CharIn(s, y, {"."})

\* `\s\d+\.` after a year that ends before y, the digits ending at e
PagesEnd(s, y, e) == e >= y + 1 /\ CharIn(s, e + 1, {"."})

PagesAt(s, y) ==
    /\ y > 0
    /\ CharIn(s, y, Whitespace)
    /\ PagesEnd(s, y, RunEndIn(s, y + 1, Digits))

\* `[^,]+\((?P<year1>\d+)\)\.` after the comma at c1; r2 is the end of the
\* run of non-commas after it
JnlSecond(s, c1, r2) == \E q \in (c1 + 2)..r2 : DotAt(s, YearAt(s, q))

\* jnlpat at p, r being the end of the run of non-commas that starts at p
JnlFrom(s, p, r) ==
    \/ /\ r >= p /\ r + 1 <= Len(s)
       /\ JnlSecond(s, r + 1, RunEndNotIn(s, r + 2, {","}))
    \/ \E q \in (p + 1)..r : PagesAt(s, YearAt(s, q))

\* jnlpat matches at p:
\*   [^,]+,[^,]+\((?P<year1>\d+)\)\.   or   [^,]+\((?P<year2>\d+)\)\s\d+\.
JnlAt(s, p) == JnlFrom(s, p, RunEndNotIn(s, p, {","}))

NoMatch == [matched |-> FALSE, authors |-> <<>>, title |-> <<>>]

\* the match object: authors end at a, the title starts at a + skip and is
\* the longest of those ending in ts (greedy); no title group when ts = {}
MatchAt(s, a, skip, ts) ==
    [matched |-> TRUE,
     authors |-> SubSeq(s, 1, a),
     title |-> IF ts = {} THEN <<>> ELSE SubSeq(s, a + skip, SetMax(ts))]

\* refpat[0]: ^(?P<authors>.*),\s(“|")(?P<title>.*),(”|")\s jnlpat
\* ends of a title that starts after the authors ending at a
QuotedTitleEnds(s, a) ==
    {t \in (a + 3)..Len(s) :
        /\ CharIn(s, t + 1, {","})
        /\ CharIn(s, t + 2, {"rdq", "\""})
        /\ CharIn(s, t + 3, Whitespace)
        /\ JnlAt(s, t + 4)}

QuotedAuthorsEnds(s) ==
    {a \in 0..Len(s) :
        /\ CharIn(s, a + 1, {","})
        /\ CharIn(s, a + 2, Whitespace)
        /\ CharIn(s, a + 3, {"ldq", "\""})
        /\ QuotedTitleEnds(s, a) # {}}

Match1At(s, a) == MatchAt(s, a, 4, QuotedTitleEnds(s, a))

\* both groups are greedy: the longest authors, then the longest title
Match1Of(s, ends) == IF ends = {} THEN NoMatch ELSE Match1At(s, SetMax(ends))

Match1(s) == Match1Of(s, QuotedAuthorsEnds(s))

\* ends of a greedy title that starts after the authors ending at a:
\* ,\s(?P<title>.*),\s jnlpat
TitleEnds(s, a) ==
    {t \in (a + 2)..Len(s) :
        /\ CharIn(s, t + 1, {","})
        /\ CharIn(s, t + 2, Whitespace)
        /\ JnlAt(s, t + 3)}

\* what follows the authors group: `,\s title,\s jnlpat` (refpat[1]) or
\* `,\s jnlpat` (refpat[2])
RestAt(s, a, withTitle) ==
    /\ CharIn(s, a + 1, {","})
    /\ CharIn(s, a + 2, Whitespace)
    /\ IF withTitle THEN TitleEnds(s, a) # {} ELSE JnlAt(s, a + 3)

\* ends of the authors group, not before `from`, for which the rest matches
RestEnds(s, from, withTitle) ==
    {a \in from..Len(s) : RestAt(s, a, withTitle)}

\* ends x of a first part of `.+? and .+?` for which the pattern matches
AndStarts(s, withTitle) ==
    {x \in 1..Len(s) :
        /\ StartsAt(s, x + 1, <<" ", "a", "n", "d", " ">>)
        /\ RestEnds(s, x + 6, withTitle) # {}}

\* (?P<authors>(?:.+? and .+?)|(?:[^,]+)): the end of the group.  The first
\* alternative is tried first, both of its parts lazily (the shortest first
\* part, then the shortest second part for which the rest matches); the
\* second alternative is the run up to the first comma.  0: no match.
AuthorsEndOf(s, withTitle, ands, run) ==
    IF ands # {} THEN SetMin(RestEnds(s, SetMin(ands) + 6, withTitle))
    ELSE IF run >= 1 /\ RestAt(s, run, withTitle) THEN run
    ELSE 0

AuthorsEnd(s, withTitle) ==
    AuthorsEndOf(s, withTitle, AndStarts(s, withTitle), RunEndNotIn(s, 1, {","}))

Match2At(s, a) == IF a = 0 THEN NoMatch ELSE MatchAt(s, a, 3, TitleEnds(s, a))

\* refpat[1]: ^authors,\s(?P<title>.*),\s jnlpat
Match2(s) == Match2At(s, AuthorsEnd(s, TRUE))

Match3At(s, a) == IF a = 0 THEN NoMatch ELSE MatchAt(s, a, 3, {})

\* refpat[2]: ^authors,\s jnlpat; there is no title group
Match3(s) == Match3At(s, AuthorsEnd(s, FALSE))

\* m1 or m2, of match objects
OrMatch(m1, m2) == IF m1.matched THEN m1 ELSE m2

\* `if mode is None or not 1 <= mode <= 3` (mode 0 is None)
MatchRef(s, m) ==
    IF m = 0 \/ ~(1 <= m /\ m <= 3)
    THEN OrMatch(Match1(s), OrMatch(Match2(s), Match3(s)))
    ELSE IF m = 1 THEN Match1(s)
    ELSE IF m = 2 THEN Match2(s)
    ELSE Match3(s)

\* position after "arXiv:" or "ar-Xiv:" at p, 0 when neither is there
AfterArxiv(s, p) ==
    IF StartsAt(s, p, <<"a", "r", "X", "i", "v", ":">>) THEN p + 6
    ELSE IF StartsAt(s, p, <<"a", "r", "-", "X", "i", "v", ":">>) THEN p + 7
    ELSE 0

\* (?P<arxiv_id>[^\s,]+) from position i
ArxivIdFrom(s, i) ==
    IF i = 0 THEN <<>>
    ELSE SubSeq(s, i, RunEndNotIn(s, i, Whitespace \cup {","}))

ArxivIdAt(s, p) == ArxivIdFrom(s, AfterArxiv(s, p))

FirstArxivId(s, hits) == IF hits = {} THEN <<>> ELSE ArxivIdAt(s, SetMin(hits))

\* re.search(r"ar-?Xiv:(?P<arxiv_id>[^\s,]+)", reftxt): the group of the
\* leftmost match, <<>> when there is none
SearchArxivId(s) == FirstArxivId(s, {p \in 1..Len(s) : ArxivIdAt(s, p) # <<>>})

HepThAt(s, p) ==
    IF /\ StartsAt(s, p, <<"h", "e", "p", "-", "t", "h", "/">>)
       /\ RunEndIn(s, p + 7, Digits) >= p + 13
    THEN SubSeq(s, p, RunEndIn(s, p + 7, Digits))
    ELSE <<>>

FirstHepTh(s, hits) == IF hits = {} THEN <<>> ELSE HepThAt(s, SetMin(hits))

\* re.search(r"(?P<arxiv_id>hep-th/\d{7,})", reftxt)
SearchHepTh(s) == FirstHepTh(s, {p \in 1..Len(s) : HepThAt(s, p) # <<>>})

\* a or b, of the groups of two searches
OrText(a, b) == IF a # <<>> THEN a ELSE b

\* id_match = re.search(...) or re.search(...)
IdMatch(s) == OrText(SearchArxivId(s), SearchHepTh(s))

\* re.findall(r'\b(?![Aa]nd\b)[a-zA-Z0-9]{2,}\b', s) from position p on: a
\* match starts at a word boundary and ends at one, so it is a whole run of
\* \w characters, all of them ASCII letters or digits
RECURSIVE FindWords(_, _)
FindWords(s, p) ==
    IF p > Len(s) THEN <<>>
    ELSE IF s[p] \notin WordChars THEN FindWords(s, p + 1)
    ELSE LET e == RunEndIn(s, p, WordChars)
             w == SubSeq(s, p, e)
         IN  IF /\ \A i \in p..e : s[i] \in AsciiAlnum
                /\ e - p + 1 >= 2
                /\ w \notin {<<"a", "n", "d">>, <<"A", "n", "d">>}
             THEN <<w>> \o FindWords(s, e + 1)
             ELSE FindWords(s, e + 1)

\* list.insert keeping a descending order of length, after the equal ones
RECURSIVE InsertByLen(_, _)
InsertByLen(ws, w) ==
    IF ws = <<>> THEN <<w>>
    ELSE IF Len(Head(ws)) >= Len(w) THEN <<Head(ws)>> \o InsertByLen(Tail(ws), w)
    ELSE <<w>> \o ws

RECURSIVE SortFrom(_, _)
SortFrom(done, todo) ==
    IF todo = <<>> THEN done
    ELSE SortFrom(InsertByLen(done, Head(todo)), Tail(todo))

\* Mutant of SortedByLen: the surnames are left in citation order.
Unsorted(ws) == ws

\* sorted(ws, key=len, reverse=True): stable, longest first
SortedByLen(ws) == SortFrom(<<>>, ws)

\* f'au:{w}' for w in ws
AuTerms(ws) == [i \in 1..Len(ws) |-> <<"a", "u", ":">> \o ws[i]]

\* ' '.join(terms)
RECURSIVE Join(_)
Join(terms) ==
    IF terms = <<>> THEN <<>>
    ELSE IF Len(terms) = 1 THEN terms[1]
    ELSE terms[1] \o <<" ">> \o Join(Tail(terms))

\* query = ' '.join(chain(au-terms of the authors, words of the title))
BuildQuery(authors, title) ==
    Join(AuTerms(SortedByLen(FindWords(Strip(authors), 1)))
         \o FindWords(Strip(title), 1))

\* Mutant of QueryIsEmpty: the empty query is not detected.
QueryNeverEmpty(q) == FALSE

\* `if not query`
QueryIsEmpty(q) == q = <<>>

\* `if not query: ...; return None`, else query_arxiv_api(query, max_results)
QueryPlan(q) ==
    IF QueryIsEmpty(q) THEN [kind |-> "empty", query |-> <<>>]
    ELSE [kind |-> "query", query |-> q]

\* request_arxiv after its searches: id is the identifier found (<<>> for
\* none) and mt the match object of the citation patterns
PlanOf(id, mt) ==
    IF id # <<>> THEN [kind |-> "query", query |-> id]
    ELSE IF ~mt.matched THEN [kind |-> "nomatch", query |-> <<>>]
    ELSE QueryPlan(BuildQuery(mt.authors, mt.title))

\* request_arxiv up to its call of query_arxiv_api: the query, or the failure
RequestPlan(s, m) == PlanOf(IdMatch(s), MatchRef(s, m))

(***************************************************************************)
(* Reference texts handed to request_arxiv                                 *)
(***************************************************************************)
\* T. Banks and E. Rabinovici, Higgs Model, Nucl. Phys. B 160 (1979) 349.
RefBanks ==
    <<"T", ".", " ", "B", "a", "n", "k", "s", " ", "a", "n", "d", " ", "E",
      ".", " ", "R", "a", "b", "i", "n", "o", "v", "i", "c", "i", ",", " ",
      "H", "i", "g", "g", "s", " ", "M", "o", "d", "e", "l", ",", " ", "N",
      "u", "c", "l", ".", " ", "P", "h", "y", "s", ".", " ", "B", " ", "1",
      "6", "0", " ", "(", "1", "9", "7", "9", ")", " ", "3", "4", "9", ".">>

\* K. Minami, Solvable xy-chain, with cluster state, and charge c=m/2, Nucl. Phys. B 925, 144 (2017).
RefMinami ==
    <<"K", ".", " ", "M", "i", "n", "a", "m", "i", ",", " ", "S", "o", "l",
      "v", "a", "b", "l", "e", " ", "x", "y", "-", "c", "h", "a", "i", "n",
      ",", " ", "w", "i", "t", "h", " ", "c", "l", "u", "s", "t", "e", "r",
      " ", "s", "t", "a", "t", "e", ",", " ", "a", "n", "d", " ", "c", "h",
      "a", "r", "g", "e", " ", "c", "=", "m", "/", "2", ",", " ", "N", "u",
      "c", "l", ".", " ", "P", "h", "y", "s", ".", " ", "B", " ", "9", "2",
      "5", ",", " ", "1", "4", "4", " ", "(", "2", "0", "1", "7", ")", ".">>

\* Y. Choi, B. C. Rayhaun, and Y. Zheng, Tube Algebras, J. Phys. A 3, 1 (2024).
RefChoi ==
    <<"Y", ".", " ", "C", "h", "o", "i", ",", " ", "B", ".", " ", "C", ".",
      " ", "R", "a", "y", "h", "a", "u", "n", ",", " ", "a", "n", "d", " ",
      "Y", ".", " ", "Z", "h", "e", "n", "g", ",", " ", "T", "u", "b", "e",
      " ", "A", "l", "g", "e", "b", "r", "a", "s", ",", " ", "J", ".", " ",
      "P", "h", "y", "s", ".", " ", "A", " ", "3", ",", " ", "1", " ", "(",
      "2", "0", "2", "4", ")", ".">>

\* Edward Witten, String dynamics, Nucl. Phys. B 443, 85 (1995).
RefWitten ==
    <<"E", "d", "w", "a", "r", "d", " ", "W", "i", "t", "t", "e", "n", ",",
      " ", "S", "t", "r", "i", "n", "g", " ", "d", "y", "n", "a", "m", "i",
      "c", "s", ",", " ", "N", "u", "c", "l", ".", " ", "P", "h", "y", "s",
      ".", " ", "B", " ", "4", "4", "3", ",", " ", "8", "5", " ", "(", "1",
      "9", "9", "5", ")", ".">>

\* A. Kitaev, "Anyons in a solved model," Ann. Phys. 321, 2 (2006).
RefKitaev ==
    <<"A", ".", " ", "K", "i", "t", "a", "e", "v", ",", " ", "\"", "A",
      "n", "y", "o", "n", "s", " ", "i", "n", " ", "a", " ", "s", "o", "l",
      "v", "e", "d", " ", "m", "o", "d", "e", "l", ",", "\"", " ", "A",
      "n", "n", ".", " ", "P", "h", "y", "s", ".", " ", "3", "2", "1", ",",
      " ", "2", " ", "(", "2", "0", "0", "6", ")", ".">>

\* A. Kitaev, “Anyons,” Ann. Phys. 321, 2 (2006).
RefCurly ==
    <<"A", ".", " ", "K", "i", "t", "a", "e", "v", ",", " ", "ldq", "A",
      "n", "y", "o", "n", "s", ",", "rdq", " ", "A", "n", "n", ".", " ",
      "P", "h", "y", "s", ".", " ", "3", "2", "1", ",", " ", "2", " ", "(",
      "2", "0", "0", "6", ")", ".">>

\* S. Hollands, GGI lectures on entropy, arXiv:2409.02159.
RefHollands ==
    <<"S", ".", " ", "H", "o", "l", "l", "a", "n", "d", "s", ",", " ", "G",
      "G", "I", " ", "l", "e", "c", "t", "u", "r", "e", "s", " ", "o", "n",
      " ", "e", "n", "t", "r", "o", "p", "y", ",", " ", "a", "r", "X", "i",
      "v", ":", "2", "4", "0", "9", ".", "0", "2", "1", "5", "9", ".">>

\* Y. Choi and Y. Zheng, Tube Algebras, arXiv:2409.02159
RefZheng ==
    <<"Y", ".", " ", "C", "h", "o", "i", " ", "a", "n", "d", " ", "Y", ".",
      " ", "Z", "h", "e", "n", "g", ",", " ", "T", "u", "b", "e", " ", "A",
      "l", "g", "e", "b", "r", "a", "s", ",", " ", "a", "r", "X", "i", "v",
      ":", "2", "4", "0", "9", ".", "0", "2", "1", "5", "9">>

\* Y. Tachikawa, On gauging, SciPost Phys. 8 (2020), [arXiv:2409.02159]
RefTachikawa ==
    <<"Y", ".", " ", "T", "a", "c", "h", "i", "k", "a", "w", "a", ",", " ",
      "O", "n", " ", "g", "a", "u", "g", "i", "n", "g", ",", " ", "S", "c",
      "i", "P", "o", "s", "t", " ", "P", "h", "y", "s", ".", " ", "8", " ",
      "(", "2", "0", "2", "0", ")", ",", " ", "[", "a", "r", "X", "i", "v",
      ":", "2", "4", "0", "9", ".", "0", "2", "1", "5", "9", "]">>

\* K. Lee, Tubes, J. Phys. 3, 1 (2024), arXiv:2409.02159, 2024.
RefJournalId ==
    <<"K", ".", " ", "L", "e", "e", ",", " ", "T", "u", "b", "e", "s", ",",
      " ", "J", ".", " ", "P", "h", "y", "s", ".", " ", "3", ",", " ", "1",
      " ", "(", "2", "0", "2", "4", ")", ",", " ", "a", "r", "X", "i", "v",
      ":", "2", "4", "0", "9", ".", "0", "2", "1", "5", "9", ",", " ", "2",
      "0", "2", "4", ".">>

\* arXiv:2409.02159
RefBareId ==
    <<"a", "r", "X", "i", "v", ":", "2", "4", "0", "9", ".", "0", "2", "1",
      "5", "9">>

\* arXiv:
RefNoId ==
    <<"a", "r", "X", "i", "v", ":">>

\* E. Witten, Notes, hep-th/9407087.
RefHepTh ==
    <<"E", ".", " ", "W", "i", "t", "t", "e", "n", ",", " ", "N", "o", "t",
      "e", "s", ",", " ", "h", "e", "p", "-", "t", "h", "/", "9", "4", "0",
      "7", "0", "8", "7", ".">>

\* Lecture notes, unpublished
RefUnpublished ==
    <<"L", "e", "c", "t", "u", "r", "e", " ", "n", "o", "t", "e", "s", ",",
      " ", "u", "n", "p", "u", "b", "l", "i", "s", "h", "e", "d">>

\* A, J, B(1).
RefInitials ==
    <<"A", ",", " ", "J", ",", " ", "B", "(", "1", ")", ".">>

\* E. Schrödinger, Quantisierung, Ann. Phys. 79, 361 (1926).
RefSchroedinger ==
    <<"E", ".", " ", "S", "c", "h", "r", "ouml", "d", "i", "n", "g", "e",
      "r", ",", " ", "Q", "u", "a", "n", "t", "i", "s", "i", "e", "r", "u",
      "n", "g", ",", " ", "A", "n", "n", ".", " ", "P", "h", "y", "s", ".",
      " ", "7", "9", ",", " ", "3", "6", "1", " ", "(", "1", "9", "2", "6",
      ")", ".">>

\* N. Seiberg and E. Witten, Nucl. Phys. B 426, 19 (1994).
RefNoTitle ==
    <<"N", ".", " ", "S", "e", "i", "b", "e", "r", "g", " ", "a", "n", "d",
      " ", "E", ".", " ", "W", "i", "t", "t", "e", "n", ",", " ", "N", "u",
      "c", "l", ".", " ", "P", "h", "y", "s", ".", " ", "B", " ", "4", "2",
      "6", ",", " ", "1", "9", " ", "(", "1", "9", "9", "4", ")", ".">>

\* H. Andersen AND K. Sand, Sand and Water, J. Geo. 2, 3 (2001).
RefSand ==
    <<"H", ".", " ", "A", "n", "d", "e", "r", "s", "e", "n", " ", "A", "N",
      "D", " ", "K", ".", " ", "S", "a", "n", "d", ",", " ", "S", "a", "n",
      "d", " ", "a", "n", "d", " ", "W", "a", "t", "e", "r", ",", " ", "J",
      ".", " ", "G", "e", "o", ".", " ", "2", ",", " ", "3", " ", "(", "2",
      "0", "0", "1", ")", ".">>

Refs == {RefBanks, RefMinami, RefChoi, RefWitten, RefKitaev, RefCurly, RefHollands, RefZheng, RefTachikawa, RefJournalId, RefBareId, RefNoId, RefHepTh, RefUnpublished, RefInitials, RefSchroedinger, RefNoTitle, RefSand}

(***************************************************************************)
(* srxiv.request_arxiv and main's check of its result (QuerySpec)          *)
(***************************************************************************)
MaxEntries == 2   \* QuerySpec: most entries a response holds

QueryInit ==
    /\ reftxt \in Refs
    /\ mode \in 0..3
    /\ qpc = "call"
    /\ sent = <<>>
    /\ printed = <<>>
    /\ result = [kind |-> "unset", len |-> 0]
    /\ impl = "srxiv"
    /\ n = 0
    /\ pc = "idle"
    /\ dispnum = 0
    /\ shown = <<>>
    /\ files = <<>>
    /\ ev = NoEv
    /\ nfetch = 0
    /\ cap = 0
    /\ LocateIdle /\ RankIdle

\* request_arxiv returns query_arxiv_api(query): the request is sent and the
\* feed's entries come back
Answered(plan, cnt) ==
    /\ plan.kind = "query"
    /\ sent' = Append(sent, plan.query)
    /\ result' = [kind |-> "entries", len |-> cnt]
    /\ qpc' = "returned"
    /\ UNCHANGED <<reftxt, mode, printed>>
    /\ UNCHANGED <<sessionVars, locateVars, rankVars>>

RequestAnswered(cnt) ==
    qpc = "call" /\ Answered(RequestPlan(reftxt, mode), cnt)

\* query_arxiv_api raises (timeout, connection error, raise_for_status):
\* neither request_arxiv nor main catches it
Raised(plan) ==
    /\ plan.kind = "query"
    /\ sent' = Append(sent, plan.query)
    /\ qpc' = "raised"
    /\ UNCHANGED <<reftxt, mode, printed, result>>
    /\ UNCHANGED <<sessionVars, locateVars, rankVars>>

RequestRaises == qpc = "call" /\ Raised(RequestPlan(reftxt, mode))

\* `if not match` / `if not query`: print the message and reftxt, return None
Failed(plan) ==
    /\ plan.kind \in {"nomatch", "empty"}
    /\ printed' = reftxt
    /\ result' = [kind |-> "None", len |-> 0]
    /\ qpc' = "returned"
    /\ UNCHANGED <<reftxt, mode, sent>>
    /\ UNCHANGED <<sessionVars, locateVars, rankVars>>

RequestFails == qpc = "call" /\ Failed(RequestPlan(reftxt, mode))

\* main: `if not entries: sys.exit(1)`, else interactive_search(entries)
MainAfterRequest ==
    /\ qpc = "returned"
    /\ qpc' = IF result.kind = "None" \/ result.len = 0 THEN "exit1"
              ELSE "interactive"
    /\ UNCHANGED <<reftxt, mode, sent, printed, result>>
    /\ UNCHANGED <<sessionVars, locateVars, rankVars>>

QueryNext ==
    \/ \E cnt \in 0..MaxEntries : RequestAnswered(cnt)
    \/ RequestRaises
    \/ RequestFails
    \/ MainAfterRequest

QuerySpec == QueryInit /\ [][QueryNext]_vars

(***************************************************************************)
(* The reference lookup: srxiv.get_reftxt and                              *)
(* search_arxiv.CitationParser.find_reference (LocateSpec)                 *)
(*                                                                         *)
(* A page is the text page.get_text() gives: its lines, each ended by a    *)
(* newline.                                                                *)
(***************************************************************************)
MaxPages == 2     \* LocateSpec: pages of a document
MaxLines == 2     \* LocateSpec: lines of a page
MaxRef == 2       \* LocateSpec: largest reference number looked up
MaxNth == 2       \* LocateSpec: largest occurrence index

UpperSet == {UpperLetters[i] : i \in 1..Len(UpperLetters)}

\* "".join(parts)
RECURSIVE Flatten(_)
Flatten(parts) ==
    IF parts = <<>> THEN <<>> ELSE Head(parts) \o Flatten(Tail(parts))

\* position of the first newline of t, 0 when it has none
FirstNewline(t) ==
    IF \E i \in 1..Len(t) : t[i] = "\n"
    THEN SetMin({i \in 1..Len(t) : t[i] = "\n"})
    ELSE 0

\* str.splitlines(); the newline is the only line boundary of the texts here
RECURSIVE SplitLines(_)
RECURSIVE SplitAt(_, _)
SplitAt(t, nl) ==
    IF nl = 0 THEN <<t>>
    ELSE <<SubSeq(t, 1, nl - 1)>> \o SplitLines(SubSeq(t, nl + 1, Len(t)))

SplitLines(t) == IF t = <<>> THEN <<>> ELSE SplitAt(t, FirstNewline(t))

\* f"[{refnum}]"
Marker(num) == <<"[">> \o Dec(num) \o <<"]">>

\* re.search(rf"(^|\.\n)\[{refnum}\]", text): the marker at the start of the
\* text or right after a full stop and a newline
SearchListMarker(t, num) ==
    \E p \in 1..Len(t) :
        /\ StartsAt(t, p, Marker(num))
        /\ p = 1 \/ StartsAt(t, p - 2, <<".", "\n">>)

\* re.search(rf"\n\[{refnum}\]", text): the marker right after a newline
SearchFirstMarker(t, num) ==
    \E p \in 2..Len(t) : t[p - 1] = "\n" /\ StartsAt(t, p, Marker(num))

\* the condition of the page loop
PageHasMarker(t, num) ==
    \/ num > 1 /\ SearchListMarker(t, num)
    \/ num = 1 /\ SearchFirstMarker(t, num)

\* a scan that goes on to the first page whatever the count
ScanOn(count, k) == FALSE

\* `if count >= findnth: break`
StopScan(count, k) == count >= k

\* `for j in range(len(doc) - 1, -1, -1)`: the value of pnum after the loop,
\* pages numbered from 1 and 0 standing for -1
RECURSIVE ScanPages(_, _, _, _, _, _)
ScanFound(d, num, k, j, count) ==
    IF StopScan(count, k) THEN j ELSE ScanPages(d, num, k, j - 1, count, j)

ScanPages(d, num, k, j, count, pnum) ==
    IF j = 0 THEN pnum
    ELSE IF PageHasMarker(d[j], num) THEN ScanFound(d, num, k, j, count + 1)
    ELSE ScanPages(d, num, k, j - 1, count, pnum)

\* "".join(page.get_text() for page in doc[pnum:pnum + 2])
Pdftxt(d, pnum) == Flatten(SubSeq(d, pnum, Min(pnum + 1, Len(d))))

\* index of the first line that starts with the marker, 0 for StopIteration
FirstLine(lines, num) ==
    IF \E i \in 1..Len(lines) : StartsAt(lines[i], 1, Marker(num))
    THEN SetMin({i \in 1..Len(lines) : StartsAt(lines[i], 1, Marker(num))})
    ELSE 0

\* re.match(r"^\[\d+\]", line), the digits ending at e
MarkerEnds(line, e) == e >= 2 /\ CharIn(line, e + 1, {"]"})

IsMarkerLine(line) ==
    CharIn(line, 1, {"["}) /\ MarkerEnds(line, RunEndIn(line, 2, Digits))

\* first line after ini that starts with a marker, else len(lines)
NextMarker(lines, ini) ==
    IF \E i \in (ini + 1)..Len(lines) : IsMarkerLine(lines[i])
    THEN SetMin({i \in (ini + 1)..Len(lines) : IsMarkerLine(lines[i])})
    ELSE Len(lines) + 1

EndsWithHyphen(line) == line # <<>> /\ line[Len(line)] = "-"

\* line.rstrip("-")
RECURSIVE RStripHyphen(_)
RStripHyphen(line) ==
    IF EndsWithHyphen(line) THEN RStripHyphen(SubSeq(line, 1, Len(line) - 1))
    ELSE line

\* lines[j + 1][0] of an empty line raises IndexError
LineRaises(lines, j, fin) ==
    EndsWithHyphen(lines[j]) /\ j + 1 < fin /\ lines[j + 1] = <<>>

\* what one line adds to reftxt
Piece(lines, j, fin) ==
    IF EndsWithHyphen(lines[j])
    THEN IF j + 1 < fin /\ lines[j + 1][1] \in UpperSet
         THEN lines[j]
         ELSE RStripHyphen(lines[j])
    ELSE lines[j] \o <<" ">>

\* re.sub(r"^\[\d+\]", "", t)
StripMarker(t) ==
    IF IsMarkerLine(t)
    THEN SubSeq(t, RunEndIn(t, 2, Digits) + 2, Len(t))
    ELSE t

NotFound ==
    [kind |-> "notfound", page |-> 0, ini |-> 0, fin |-> 0, text |-> <<>>]

\* the loop over range(ini, fin) and the return
BlockOf(lines, pnum, ini, fin) ==
    IF \E j \in ini..(fin - 1) : LineRaises(lines, j, fin)
    THEN [kind |-> "raised", page |-> pnum, ini |-> ini, fin |-> fin,
          text |-> <<>>]
    ELSE [kind |-> "block", page |-> pnum, ini |-> ini, fin |-> fin,
          text |-> Strip(StripMarker(Flatten(
                     [i \in 1..(fin - ini) |-> Piece(lines, ini + i - 1, fin)])))]

BlockFrom(lines, pnum, ini) ==
    IF ini = 0 THEN NotFound
    ELSE BlockOf(lines, pnum, ini, NextMarker(lines, ini))

BlockIn(lines, num, pnum) == BlockFrom(lines, pnum, FirstLine(lines, num))

Located(d, num, pnum) ==
    IF pnum = 0 THEN NotFound
    ELSE BlockIn(SplitLines(Pdftxt(d, pnum)), num, pnum)

\* get_reftxt(pdfpath, refnum, findnth): the text returned, with the page and
\* the lines it was taken from, or the exception
GetReftxt(d, num, k) == Located(d, num, ScanPages(d, num, k, Len(d), 0, 0))

\* re.sub(r"([.,])$", r"\1 ", line.rstrip("-"))
PadStop(s) ==
    IF s # <<>> /\ s[Len(s)] \in {".", ","} THEN s \o <<" ">> ELSE s

SaPiece(line) == PadStop(RStripHyphen(line))

SaBlockOf(lines, ini, fin) ==
    [kind |-> "block", page |-> 1, ini |-> ini, fin |-> fin,
     text |-> Strip(Flatten([i \in 1..(fin - ini) |-> SaPiece(lines[ini + i - 1])]))]

SaBlockFrom(lines, ini) ==
    IF ini = 0 THEN NotFound
    ELSE SaBlockOf(lines, ini, NextMarker(lines, ini))

\* PDFProcessor.extract_text then CitationParser.find_reference(text, n)
FindReference(d, num) ==
    SaBlockFrom(SplitLines(Flatten(d)), FirstLine(SplitLines(Flatten(d)), num))

(***************************************************************************)
(* Lines the sample documents are made of                                  *)
(***************************************************************************)
\* "[1] A": the list entry of reference 1, not ended by a full stop
LineEntry1 == <<"[", "1", "]", " ", "A">>
\* "[2] B.": the list entry of reference 2
LineEntry2 == <<"[", "2", "]", " ", "B", ".">>
\* "[2] is": a line of running text that begins with a citation of [2]
LineCited2 == <<"[", "2", "]", " ", "i", "s">>
\* "x.": a line that starts in lower case and ends a sentence
LineStop == <<"x", ".">>
\* "y-": a line that ends in a hyphen
LineHyphen == <<"y", "-">>
\* "Z": a line that starts in upper case
LineUpper == <<"Z">>
LineEmpty == <<>>

LineBank == {LineEntry1, LineEntry2, LineCited2, LineStop, LineHyphen,
             LineUpper, LineEmpty}

\* page.get_text() of a page with these lines
PageText(ls) == Flatten([i \in 1..Len(ls) |-> ls[i] \o <<"\n">>])

Pages == {PageText(ls) : ls \in UNION {[1..k -> LineBank] : k \in 1..MaxLines}}

Docs == UNION {[1..k -> Pages] : k \in 1..MaxPages}

LocateInit ==
    /\ impl \in {"srxiv", "search_arxiv"}
    /\ doc \in Docs
    /\ refnum \in 1..MaxRef
    /\ findnth \in IF impl = "srxiv" THEN 1..MaxNth ELSE {1}
    /\ block = NoBlock
    /\ RankIdle
    /\ reftxt = <<>>
    /\ mode = 0
    /\ qpc = "idle"
    /\ sent = <<>>
    /\ printed = <<>>
    /\ result = [kind |-> "unset", len |-> 0]
    /\ n = 0
    /\ pc = "idle"
    /\ dispnum = 0
    /\ shown = <<>>
    /\ files = <<>>
    /\ ev = NoEv
    /\ nfetch = 0
    /\ cap = 0

\* srxiv.main calls get_reftxt(args.id, args.refnum, args.depth)
SrxGetReftxt ==
    /\ impl = "srxiv" /\ block.kind = "unset"
    /\ block' = GetReftxt(doc, refnum, findnth)
    /\ UNCHANGED <<doc, refnum, findnth>>
    /\ UNCHANGED <<sessionVars, queryVars, rankVars>>

\* search_arxiv.main calls extract_text and find_reference
SaFindReference ==
    /\ impl = "search_arxiv" /\ block.kind = "unset"
    /\ block' = FindReference(doc, refnum)
    /\ UNCHANGED <<doc, refnum, findnth>>
    /\ UNCHANGED <<sessionVars, queryVars, rankVars>>

LocateNext == SrxGetReftxt \/ SaFindReference

LocateSpec == LocateInit /\ [][LocateNext]_vars

(***************************************************************************)
(* The candidate list handed to the interactive loop (RankSpec)            *)
(*                                                                         *)
(* An entry of the feed is its position in the repository's answer and the *)
(* score _calculate_similarity gives its title against the target title.   *)
(***************************************************************************)
MaxFeed == 3      \* RankSpec: entries of a repository answer

\* values of fuzz.ratio the sample entries take
Scores == {40, 80, 100}

\* the sample target title
TitleT == <<"T">>

Feeds ==
    {[i \in 1..Len(f) |-> [id |-> i, score |-> f[i]]] :
        f \in UNION {[1..k -> Scores] : k \in 0..MaxFeed}}

\* e put after the entries of `done` that score at least as much: where a
\* stable descending sort leaves it
InsertByScore(done, e, k) ==
    SubSeq(done, 1, k) \o <<e>> \o SubSeq(done, k + 1, Len(done))

RECURSIVE SortByScore(_, _)
SortByScore(done, todo) ==
    IF todo = <<>> THEN done
    ELSE SortByScore(
             InsertByScore(done, Head(todo),
                 Cardinality({i \in 1..Len(done) :
                                 done[i].score >= Head(todo).score})),
             Tail(todo))

\* sorted(arxiv_entries, key=lambda x: x.similarity_score, reverse=True)
SortedByScore(es) == SortByScore(<<>>, es)

RankInit ==
    /\ impl \in {"srxiv", "search_arxiv"}
    /\ feed \in Feeds
    /\ target \in {<<>>, TitleT}
    /\ handed = NoList
    /\ LocateIdle
    /\ reftxt = <<>>
    /\ mode = 0
    /\ qpc = "idle"
    /\ sent = <<>>
    /\ printed = <<>>
    /\ result = [kind |-> "unset", len |-> 0]
    /\ n = 0
    /\ pc = "idle"
    /\ dispnum = 0
    /\ shown = <<>>
    /\ files = <<>>
    /\ ev = NoEv
    /\ nfetch = 0
    /\ cap = 0

\* search_arxiv.main: `if not authors or not title: sys.exit(1)`, else
\* display_results_interactive(search_by_authors(authors, title))
SaMainRanks ==
    /\ impl = "search_arxiv" /\ handed.kind = "unset"
    /\ handed' = IF target = <<>>
                 THEN [kind |-> "exit1", entries |-> <<>>]
                 ELSE [kind |-> "list", entries |-> SortedByScore(feed)]
    /\ UNCHANGED <<feed, target>>
    /\ UNCHANGED <<sessionVars, queryVars, locateVars>>

\* srxiv.main: entries = request_arxiv(...), the feed's entries as they came;
\* `if not entries: sys.exit(1)`, else interactive_search(entries)
SrxMainHands ==
    /\ impl = "srxiv" /\ handed.kind = "unset"
    /\ handed' = IF feed = <<>>
                 THEN [kind |-> "exit1", entries |-> <<>>]
                 ELSE [kind |-> "list", entries |-> feed]
    /\ UNCHANGED <<feed, target>>
    /\ UNCHANGED <<sessionVars, queryVars, locateVars>>

RankNext == SaMainRanks \/ SrxMainHands

RankSpec == RankInit /\ [][RankNext]_vars

(***************************************************************************)
(* Claims about the interactive session (Spec)                             *)
(***************************************************************************)
\* c is a decimal numeral
IsDecimal(c) == c # <<>> /\ \A i \in 1..Len(c) : c[i] \in Digits

\* the last loop iteration read a command (not an interruption or EOF)
ReadACommand == ev.kind \in {"quit", "more", "invalid", "select", "crash", "error"}

Upto(k) == [i \in 1..k |-> i]

\* C1: a numeric command i with k < i <= N (a candidate not yet disclosed)
\* is rejected as invalid input, starts no download and leaves the session
\* in Disclosed(k).
C1_UndisclosedIndexRejected ==
    (/\ ReadACommand
     /\ IsDecimal(ev.c)
     /\ ev.k < IntOf(ev.c)
     /\ IntOf(ev.c) <= n)
    => (/\ ev.kind = "invalid"
        /\ ev.report = "invalid"
        /\ ev.fetch = NoFetch
        /\ dispnum = ev.k
        /\ pc = "prompt")

\* C2 as stated: "show more" moves Disclosed(k) to Disclosed(min(k+5, N))
\* when k < N; when k = N it changes nothing and reports "no more", N = 1
\* included.
C2_ShowMoreAsStated ==
    (ReadACommand /\ ev.c = <<"m">>)
    => (/\ pc = "prompt"
        /\ ev.fetch = NoFetch
        /\ shown = Upto(dispnum)
        /\ IF ev.k < n
           THEN dispnum = Min(ev.k + 5, n)
           ELSE dispnum = ev.k /\ ev.report = "nomore")

\* C2 amended: as above, except that srxiv.interactive_search with N = 1
\* does not take 'm' as a command: it changes nothing and reports invalid
\* input.  With N = 12 the disclosed counts run 1, 6, 11, 12, 12.
C2_ShowMore ==
    /\ (ReadACommand /\ ev.c = <<"m">>)
       => (/\ pc = "prompt"
           /\ ev.fetch = NoFetch
           /\ shown = Upto(dispnum)
           /\ IF ev.k < n
              THEN dispnum = Min(ev.k + 5, n)
              ELSE /\ dispnum = ev.k
                   /\ ev.report = IF impl = "srxiv" /\ n = 1 THEN "invalid"
                                  ELSE "nomore")
    /\ (n = 12 /\ ReadACommand /\ ev.c = <<"m">>)
       => <<ev.k, dispnum>> \in {<<1, 6>>, <<6, 11>>, <<11, 12>>, <<12, 12>>}

\* the fourth "show more" of a list of 12 has been answered "no more"
C2_Witness ==
    /\ n = 12 /\ ev.kind = "more" /\ ev.k = 12 /\ dispnum = 12
    /\ ev.report = "nomore"

\* C4: an input that is not quit, not "show more" and not a valid index
\* leaves the disclosed count unchanged, starts no download, reports invalid
\* input and is followed by another prompt.
C4_InvalidInputRecoverable ==
    (/\ ReadACommand
     /\ ev.c # <<"q">>
     /\ ev.c # <<"m">>
     /\ ~(IsDecimal(ev.c) /\ 1 <= IntOf(ev.c) /\ IntOf(ev.c) <= n))
    => (/\ pc = "prompt"
        /\ dispnum = ev.k
        /\ shown = Upto(ev.k)
        /\ ev.fetch = NoFetch
        /\ ev.report \in {"invalid", "error"})

\* the session is in the loop, or has left it
InLoop == pc = "prompt" \/ (pc \in {"done", "crashed"} /\ n > 0)

C5_State ==
    InLoop => (/\ 1 <= dispnum /\ dispnum <= n
               /\ shown = Upto(dispnum))

C5_Step ==
    /\ (pc = "start" /\ pc' = "prompt") => (dispnum' = 1 /\ shown' = <<1>>)
    /\ (pc # "start" /\ pc' # "start") => dispnum' >= dispnum

\* C5: in the loop 1 <= k <= N; the loop starts in Disclosed(1) with only
\* the first candidate displayed; k never decreases; the candidates displayed
\* are exactly entries 1..k, once each and in rank order.
C5_DisclosedCount == []C5_State /\ [][C5_Step]_vars

\* every candidate of a list of 12 has been displayed
C5_Witness == n = 12 /\ pc = "prompt" /\ dispnum = 12 /\ shown = Upto(12)

(***************************************************************************)
(* Claims about the download step (FetchSpec)                              *)
(***************************************************************************)
C3_State ==
    /\ ev.kind \in {"quit", "interrupt", "eof"}
       => (pc = "done" /\ ev.fetch = NoFetch)
    /\ ev.kind = "select"
       => (pc # "prompt"
           <=> ~(/\ impl = "search_arxiv"
                 /\ ~ev.fetch.success
                 /\ ev.fetch.raised = "none"))

\* once the session has ended nothing but a new invocation follows: no
\* prompt, no download
C3_Step ==
    pc \in Terminal
    => (pc' = "start" /\ files' = files /\ nfetch' = nfetch)

\* C3 as stated: after a quit, a valid select, end-of-input or an
\* interruption the session has ended (no prompt follows); quit,
\* end-of-input and interruption start no download.
C3_TerminalAsStated ==
    /\ ev.kind \in {"quit", "select", "interrupt", "eof"} => pc \in Terminal
    /\ ev.kind \in {"quit", "interrupt", "eof"} => ev.fetch = NoFetch

\* C3 amended: Terminal is absorbing; quit, end-of-input and interruption end
\* the session without a download; a valid select ends it, except in
\* search_arxiv.display_results_interactive when download_pdf_and_view
\* returns False (request failed, or no viewer found): the session then
\* stays in Disclosed(k) and prompts again.
C3_TerminalAbsorbing == []C3_State /\ [][C3_Step]_vars

\* a second download started from the prompt that followed a failed select
C3_Witness ==
    /\ impl = "search_arxiv" /\ ev.kind = "select" /\ nfetch = 2
    /\ pc = "prompt" /\ ev.fetch.requested

\* C6: the download step issues a request exactly when the output path does
\* not exist; a successful download leaves the artifact there; a call that
\* finds it issues no request, leaves its contents unchanged and goes
\* straight to the viewer.
C6_DownloadIdempotent ==
    ev.kind = "select"
    => (/\ ev.fetch.cand \in 1..n
        /\ ev.fetch.requested <=> ev.fetch.before = "absent"
        /\ (ev.fetch.requested /\ ev.fetch.outcome = "pdf")
           => files[ev.fetch.cand] = "pdf"
        /\ ev.fetch.before # "absent"
           => (/\ files[ev.fetch.cand] = ev.fetch.before
               /\ ev.fetch.lookup
               /\ ev.fetch.raised = "none"))

\* the second call for a candidate whose document the first call downloaded
C6_Witness ==
    /\ nfetch = 2 /\ ev.kind = "select" /\ ev.fetch.before = "pdf"
    /\ ~ev.fetch.requested /\ ev.fetch.opened
    /\ files[ev.fetch.cand] = "pdf"

\* C7: bytes without the magic header are a validation failure: no file
\* under the output name afterwards, no viewer started on it, and so no later
\* call that takes the artifact as present.
C7_InvalidArtifactRejected ==
    /\ (ev.kind = "select" /\ ev.fetch.outcome = "notpdf")
       => (/\ files[ev.fetch.cand] = "absent"
           /\ ~ev.fetch.opened
           /\ ~ev.fetch.success)
    /\ \A c \in 1..n : files[c] # "notpdf"

(***************************************************************************)
(* Claims about request_arxiv (QuerySpec)                                  *)
(***************************************************************************)
\* the alphanumeric words of t, as <<first, last>> positions: whole runs of
\* word characters that are ASCII letters and digits only, two or more
\* characters, other than "and" and "And"
WordSpans(t) ==
    {w \in (1..Len(t)) \X (1..Len(t)) :
        /\ w[1] < w[2]
        /\ \A i \in w[1]..w[2] : t[i] \in AsciiAlnum
        /\ w[1] = 1 \/ t[w[1] - 1] \notin WordChars
        /\ w[2] = Len(t) \/ t[w[2] + 1] \notin WordChars
        /\ SubSeq(t, w[1], w[2]) \notin {<<"a", "n", "d">>, <<"A", "n", "d">>}}

\* the surnames of the claim: the last whitespace-delimited token of each
\* name, the names being separated by ", " and " and "; a token of one
\* character is dropped
SurnameSpans(t) ==
    {w \in (1..Len(t)) \X (1..Len(t)) :
        /\ w[1] < w[2]
        /\ \A i \in w[1]..w[2] : t[i] \notin Whitespace \cup {","}
        /\ w[1] = 1 \/ t[w[1] - 1] \in Whitespace \cup {","}
        /\ \/ w[2] = Len(t)
           \/ t[w[2] + 1] = ","
           \/ StartsAt(t, w[2] + 1, <<" ", "a", "n", "d", " ">>)}

\* place of span w among the spans S: by descending length with ties in
\* text order (byLen), or in text order
Place(S, w, byLen) ==
    1 + Cardinality({v \in S :
            IF byLen
            THEN \/ v[2] - v[1] > w[2] - w[1]
                 \/ (v[2] - v[1] = w[2] - w[1] /\ v[1] < w[1])
            ELSE v[1] < w[1]})

\* the words of the spans S of t, listed by place
Listed(t, S, byLen) ==
    [r \in 1..Cardinality(S) |->
        LET w == CHOOSE v \in S : Place(S, v, byLen) = r
        IN  SubSeq(t, w[1], w[2])]

\* a query was built from a parsed citation without identifier
BuiltFromCitation == sent # <<>> /\ IdMatch(reftxt) = <<>>

ParsedAuthors == Strip(MatchRef(reftxt, mode).authors)
ParsedTitle == Strip(MatchRef(reftxt, mode).title)

\* the reference text has no identifier and either no pattern matches it or
\* its authors and title hold no word
ParseFails ==
    /\ IdMatch(reftxt) = <<>>
    /\ \/ ~MatchRef(reftxt, mode).matched
       \/ (WordSpans(ParsedAuthors) = {} /\ WordSpans(ParsedTitle) = {})

\* C8: a request is issued only with a non-empty query; when no pattern
\* matches or the term list is empty, request_arxiv echoes the reference
\* text, issues no request, and main exits with status 1 without entering
\* the interactive loop.
C8_NonEmptyQueryOnly ==
    /\ \A i \in 1..Len(sent) : sent[i] # <<>>
    /\ (qpc # "call" /\ ParseFails)
       => (/\ sent = <<>>
           /\ printed = reftxt
           /\ result.kind = "None"
           /\ qpc \in {"returned", "exit1"})
    /\ qpc = "interactive" => (sent # <<>> /\ result.kind = "entries")

\* a citation that matches the no-title pattern but whose author is a single
\* letter: the lookup has been given up
C8_Witness ==
    /\ reftxt = RefInitials /\ mode = 0
    /\ MatchRef(reftxt, mode).matched
    /\ qpc = "exit1" /\ printed = RefInitials /\ sent = <<>>

\* s holds lit somewhere
Contains(s, lit) == \E p \in 1..Len(s) : StartsAt(s, p, lit)

\* C9: for a block that contains the identifier token arXiv:2409.02159
\* anywhere, the query sent is exactly 2409.02159, with no surrounding
\* punctuation and no other term.
C9_IdentifierAlone ==
    (/\ qpc # "call"
     /\ Contains(reftxt, <<"a", "r", "X", "i", "v", ":", "2", "4", "0", "9",
                           ".", "0", "2", "1", "5", "9">>))
    => sent = <<<<"2", "4", "0", "9", ".", "0", "2", "1", "5", "9">>>>

Looked == block.kind # "unset"

\* the lines of the whole document
DocLines == SplitLines(Flatten(doc))

\* the lines the block was cut from
ScannedLines ==
    IF impl = "srxiv" THEN SplitLines(Pdftxt(doc, block.page)) ELSE DocLines

\* the lines of the sample documents that are the list entry of reference num
ListEntries(num) ==
    IF num = 1 THEN {LineEntry1} ELSE IF num = 2 THEN {LineEntry2} ELSE {}

\* the list entry of the reference looked up is in the document
EntryPresent == \E i \in 1..Len(DocLines) : DocLines[i] \in ListEntries(refnum)

\* C11: whenever the list entry "[n]" is in the document, the lookup returns
\* a non-empty block that starts at the line of the list entry (not at a
\* citation of [n] in running text) and ends strictly before the next line
\* that starts with a marker, or at the end of the scanned text.
C11_BlockOfListEntry ==
    Looked /\ EntryPresent =>
        /\ block.kind = "block"
        /\ block.text # <<>>
        /\ ScannedLines[block.ini] \in ListEntries(refnum)
        /\ \A j \in (block.ini + 1)..(block.fin - 1) :
               ~IsMarkerLine(ScannedLines[j])
        /\ \/ block.fin = Len(ScannedLines) + 1
           \/ IsMarkerLine(ScannedLines[block.fin])

LowerSet == {LowerLetters[i] : i \in 1..Len(LowerLetters)}

DropLast(line) == SubSeq(line, 1, Len(line) - 1)

\* what line j of a block adds to the text, as stated; `keep` decides the
\* cases the statement leaves open
StatedPiece(lines, j, fin, keep) ==
    IF ~EndsWithHyphen(lines[j]) THEN lines[j] \o <<" ">>
    ELSE IF j + 1 < fin /\ CharIn(lines[j + 1], 1, LowerSet)
         THEN DropLast(lines[j])
    ELSE IF j + 1 < fin /\ CharIn(lines[j + 1], 1, UpperSet)
         THEN lines[j]
    ELSE IF keep THEN lines[j] ELSE DropLast(lines[j])

StatedText(lines, ini, fin, keep) ==
    Strip(StripMarker(Flatten(
        [i \in 1..(fin - ini) |->
            StatedPiece(lines, ini + i - 1, fin, keep[ini + i - 1])])))

\* C12: get_reftxt reassembles every block it has found: a line that ends in
\* a hyphen and is followed by a line starting in lower case is joined to it
\* with the hyphen removed and no space; followed by a line starting in upper
\* case it keeps its hyphen; a line not ending in a hyphen is followed by one
\* space.  A block whose hyphen-ended line is followed by an empty line, or
\* is its last line, is reassembled too.
C12_HyphenUnwrap ==
    Looked /\ impl = "srxiv" /\ block.page > 0 =>
        /\ block.kind = "block"
        /\ \E keep \in [block.ini..(block.fin - 1) -> BOOLEAN] :
               block.text = StatedText(ScannedLines, block.ini, block.fin, keep)

\* the pages the page loop counts as containing the marker
MatchingPages ==
    {j \in 1..Len(doc) : PageHasMarker(doc[j], refnum)}

\* the k-th page of S counted from the last page
KthFromEnd(S, k) == CHOOSE x \in S : Cardinality({y \in S : y >= x}) = k

\* C15 as stated: pages are scanned from the last one backward, the k-th page
\* that contains the marker is the one used, and the lookup fails with an
\* empty result when fewer than k pages (none included) contain the marker.
C15_PageSelectionAsStated ==
    Looked /\ impl = "srxiv" =>
        IF Cardinality(MatchingPages) >= findnth
        THEN block.page = KthFromEnd(MatchingPages, findnth)
        ELSE block.kind = "notfound" /\ block.text = <<>>

\* C15: pages are scanned from the last one backward and the scan stops at
\* the k-th page that contains the marker, which is the page used; when
\* fewer than k pages but at least one contain the marker, the page used is
\* the first of them in the document; the lookup fails with an empty result
\* only when no page contains the marker.
C15_PageSelection ==
    Looked /\ impl = "srxiv" =>
        IF Cardinality(MatchingPages) >= findnth
        THEN block.page = KthFromEnd(MatchingPages, findnth)
        ELSE IF MatchingPages # {}
        THEN block.page = SetMin(MatchingPages) /\ block.kind # "notfound"
        ELSE block.kind = "notfound" /\ block.text = <<>>

\* a lookup with occurrence index 2 in a document of two pages of which only
\* the second contains the marker: that page is used
C15_Witness ==
    /\ impl = "srxiv" /\ findnth = 2 /\ Len(doc) = 2
    /\ block.kind = "block"
    /\ MatchingPages = {2}
    /\ block.page = 2

(***************************************************************************)
(* Claims about the candidate list (RankSpec)                              *)
(***************************************************************************)
\* es holds the entries of the feed, each once
SameEntries(es) ==
    Len(es) = Len(feed) /\ {es[i] : i \in 1..Len(es)} = {feed[i] : i \in 1..Len(feed)}

\* C13: the list handed to the interactive loop holds the feed's entries in
\* descending order of score, entries of equal score in the repository's
\* order; when there is no target title it is the feed in its own order.
C13_RankedList ==
    handed.kind = "list" =>
        IF target = <<>> THEN handed.entries = feed
        ELSE /\ SameEntries(handed.entries)
             /\ \A i, j \in 1..Len(handed.entries) :
                    i < j =>
                        \/ handed.entries[i].score > handed.entries[j].score
                        \/ /\ handed.entries[i].score = handed.entries[j].score
                           /\ handed.entries[i].id < handed.entries[j].id

(***************************************************************************)
(* Claim about the exit of one invocation (Spec, QuerySpec)                *)
(***************************************************************************)
\* the process ended with status 0: main returned
SuccessExit == pc = "done"

\* the invocation is over
Exited == pc \in Terminal

\* C14: a successful selection and fetch ends with a success exit; an empty
\* result set, a parse failure or an empty query ends with a failure exit
\* and a diagnostic message and never enters the interactive loop; an
\* operator quit or the end of input ends with a success exit.
C14_ExitBehaviour ==
    /\ ev.kind = "select" /\ ev.fetch.success => SuccessExit
    /\ ev.kind \in {"quit", "eof"} => SuccessExit
    /\ n = 0 /\ Exited =>
           pc = "exit1" /\ ev.report # "none" /\ shown = <<>>
    /\ result.kind \in {"None", "entries"} /\ result.len = 0
       /\ qpc # "returned" =>
           qpc = "exit1" /\ printed # <<>>

====
